---- MODULE Spec2Model ----
(***************************************************************************)
(* Model of the NewsService of the news dashboard (services/newsService):  *)
(* the article cache, its localStorage mirror, the auto-refresh timer and  *)
(* the asynchronous collectNews pipeline (RSS fan-out, web scraping, two   *)
(* deduplication passes, sample padding, cache swap).                      *)
(*                                                                         *)
(* Conventions.                                                            *)
(*  - Time is counted in minutes; Date.now() is the variable now.           *)
(*  - A string that the code inspects is a sequence of segments: a word     *)
(*    (a run of ordinary characters), " " (white space), an entity such as  *)
(*    "&amp;" or a tag such as "<b>".  A link is a sequence whose first     *)
(*    segment is its prefix: "http", "#" or "/"; the empty sequence is ''.  *)
(*  - One action is one synchronous stretch of JavaScript between two       *)
(*    suspension points (await) or one timer / UI callback.                 *)
(***************************************************************************)
EXTENDS Integers, Sequences, FiniteSets

VARIABLES
    started,        \* FALSE until the constructor of the singleton has run
    now,            \* Date.now(), in minutes
    articles,       \* NewsService.articles
    nextId,         \* NewsService.nextId
    lsArticles,     \* localStorage['news_articles']: <<>> (absent) or <<text>>
    lsLastUpdate,   \* localStorage['news_last_update']: <<>> (absent) or <<text>>
    timer,          \* NewsService.autoRefreshInterval: <<>> (null) or <<next firing time>>
    runs,           \* the collectNews invocation of each caller: its position and locals
    lastDone,       \* the caller whose collectNews invocation completed last
    view            \* what the last read a caller made of the service returned

vars == <<started, now, articles, nextId, lsArticles, lsLastUpdate, timer, runs, lastDone, view>>


(***************************************************************************)
(* Bounds of the model.                                                    *)
(***************************************************************************)
MaxStartId == 6     \* collectNews is invoked only while nextId <= MaxStartId
MaxTime == 132      \* the clock stops advancing here
NumFeeds == 2       \* entries of FEEDS that are modelled

(***************************************************************************)
(* Program constants.                                                      *)
(***************************************************************************)
CACHE_DURATION == 30
DEFAULT_MAX_FEEDS == 12
AUTO_MAX_FEEDS == 8
UI_MAX_FEEDS == 5
MIN_ARTICLES == 10
TITLE_MAX == 200
SCRAPE_MIN_TITLE == 10
SCRAPE_MAX_PER_PAGE == 20
T0 == 100           \* the clock when the page is loaded

Min(a, b) == IF a < b THEN a ELSE b
Max(a, b) == IF a < b THEN b ELSE a

RECURSIVE SeqMax(_)
SeqMax(s) == IF s = <<>> THEN 0 ELSE Max(Head(s), SeqMax(Tail(s)))

Range(s) == {s[i] : i \in 1..Len(s)}

(***************************************************************************)
(* Strings as segment sequences.                                           *)
(***************************************************************************)
Entities == {"&amp;"}
Tags == {"<b>"}
Blank == " "

\* length in characters of one segment
SegLen(x) ==
    CASE x = "&amp;" -> 5
      [] x = "<b>" -> 3
      [] x = " " -> 1
      [] x = "Quantum" -> 7
      [] x = "Robotics" -> 8
      [] x = "Chip" -> 4
      [] x = "lorem" -> 100
      [] x = "..." -> 3
      [] x \in {"."} -> 1
      [] x \in {"GPT", "LLM", "HBM", "GPU", "CPU", "NPU", "TPU", "LTE", "CDN", "API", "SDK",
                "NFT", "IPO", "The", "bandoche"} -> 3
      [] x \in {"DRAM", "NAND", "FPGA", "ASIC", "TSMC", "GDPR", "OLED"} -> 4
      [] x \in {"Cloud", "cloud", "Chair", "128GB", "gyeoljesiseutem"} -> 5
      [] OTHER -> 2

RECURSIVE StrLen(_)
StrLen(s) == IF s = <<>> THEN 0 ELSE SegLen(Head(s)) + StrLen(Tail(s))

\* String.prototype.trim
RECURSIVE TrimLeft(_)
TrimLeft(s) == IF s # <<>> /\ Head(s) = Blank THEN TrimLeft(Tail(s)) ELSE s

RECURSIVE TrimRight(_)
TrimRight(s) ==
    IF s # <<>> /\ s[Len(s)] = Blank THEN TrimRight(SubSeq(s, 1, Len(s) - 1)) ELSE s

Trim(s) == TrimRight(TrimLeft(s))

\* replace(/&[^;]+;/g, ' ')
RECURSIVE ReplaceEntities(_)
ReplaceEntities(s) ==
    IF s = <<>> THEN <<>>
    ELSE <<(IF Head(s) \in Entities THEN Blank ELSE Head(s))>> \o ReplaceEntities(Tail(s))

\* replace(/<[^>]*>/g, '')
RECURSIVE StripTags(_)
StripTags(s) ==
    IF s = <<>> THEN <<>>
    ELSE (IF Head(s) \in Tags THEN <<>> ELSE <<Head(s)>>) \o StripTags(Tail(s))

\* replace(/\s+/g, ' ')
RECURSIVE CollapseSpace(_)
CollapseSpace(s) ==
    IF Len(s) < 2 THEN s
    ELSE IF s[1] = Blank /\ s[2] = Blank THEN CollapseSpace(Tail(s))
    ELSE <<Head(s)>> \o CollapseSpace(Tail(s))

\* substring(0, n): the longest prefix of whole segments within n characters
RECURSIVE Substring0(_, _)
Substring0(s, n) ==
    IF s = <<>> \/ SegLen(Head(s)) > n THEN <<>>
    ELSE <<Head(s)>> \o Substring0(Tail(s), n - SegLen(Head(s)))

cleanTitle(title) ==
    Substring0(Trim(CollapseSpace(StripTags(ReplaceEntities(title)))), TITLE_MAX)

StartsWithHttp(link) == link # <<>> /\ Head(link) = "http"
IsSynthetic(link) == link # <<>> /\ Head(link) = "#"

(***************************************************************************)
(* Numbers as decimal strings (Date.now().toString(), parseInt).           *)
(***************************************************************************)
Digits == <<"0", "1", "2", "3", "4", "5", "6", "7", "8", "9">>
NaN == -1     \* stands for NaN: no decimal string here denotes a negative number

RECURSIVE NumToString(_)
NumToString(n) ==
    IF n < 10 THEN <<Digits[n + 1]>> ELSE NumToString(n \div 10) \o <<Digits[(n % 10) + 1]>>

DigitVal(d) == CHOOSE k \in 0..9 : Digits[k + 1] = d
IsDigit(d) == d \in Range(Digits)

\* the digits parseInt consumes: the longest leading run of digits
RECURSIVE LeadingDigits(_)
LeadingDigits(s) ==
    IF s # <<>> /\ IsDigit(Head(s)) THEN <<Head(s)>> \o LeadingDigits(Tail(s)) ELSE <<>>

RECURSIVE DigitsValue(_)
DigitsValue(s) ==
    IF s = <<>> THEN 0 ELSE 10 * DigitsValue(SubSeq(s, 1, Len(s) - 1)) + DigitVal(s[Len(s)])

parseInt(s) == IF LeadingDigits(s) = <<>> THEN NaN ELSE DigitsValue(LeadingDigits(s))

(***************************************************************************)
(* Words: what the keyword extractor and the search see of a segment.      *)
(* Korean words are written in Latin transliteration, in lower case:       *)
(* "bandoche" is the dictionary entry for semiconductor, "gyeoljesiseutem" *)
(* a compound ending in the suffix for system.  "lorem" is a passage of    *)
(* 100 characters of ordinary lower-case words.                            *)
(***************************************************************************)
MAX_KEYWORDS == 12
TITLE_ZONE == 100
SUMMARY_MAX == 200
MIN_SENTENCE == 10

\* the part of techKeywords that is modelled, in the order of the source
techKeywords ==
    <<"AI", "GPT", "LLM", "bandoche", "DRAM", "NAND", "HBM", "GPU", "CPU", "NPU", "TPU",
      "FPGA", "ASIC", "TSMC", "5G", "LTE", "Cloud", "CDN", "API", "SDK", "NFT", "EV",
      "IPO", "VC", "GDPR">>

\* words with upper-case letters and their toLowerCase() form
Cased ==
    << <<"AI", "ai">>, <<"GPT", "gpt">>, <<"LLM", "llm">>, <<"DRAM", "dram">>,
       <<"NAND", "nand">>, <<"HBM", "hbm">>, <<"GPU", "gpu">>, <<"CPU", "cpu">>,
       <<"NPU", "npu">>, <<"TPU", "tpu">>, <<"FPGA", "fpga">>, <<"ASIC", "asic">>,
       <<"TSMC", "tsmc">>, <<"5G", "5g">>, <<"LTE", "lte">>, <<"Cloud", "cloud">>,
       <<"CDN", "cdn">>, <<"API", "api">>, <<"SDK", "sdk">>, <<"NFT", "nft">>,
       <<"EV", "ev">>, <<"IPO", "ipo">>, <<"VC", "vc">>, <<"GDPR", "gdpr">>,
       <<"OLED", "oled">>, <<"128GB", "128gb">>, <<"The", "the">>, <<"Chair", "chair">>,
       <<"Quantum", "quantum">>, <<"Robotics", "robotics">>, <<"Chip", "chip">>,
       <<"GPT-4", "gpt-4">>, <<"IoT", "iot">>, <<"VR", "vr">>, <<"AR", "ar">> >>

LowerForm ==
    [w \in {Cased[i][1] : i \in 1..Len(Cased)} |->
        Cased[CHOOSE i \in 1..Len(Cased) : Cased[i][1] = w][2]]

\* toLowerCase() of one word
Lower(w) == IF w \in DOMAIN LowerForm THEN LowerForm[w] ELSE w

\* the lower-case words that occur inside a longer word
Inside(w) ==
    CASE w = "Chair" -> {"ai"}
      [] w = "Robotics" -> {"robot"}
      [] w = "GPT-4" -> {"gpt"}
      [] OTHER -> {}

\* str.toLowerCase().includes(needle) for a lower-case needle of one word
Includes(str, needle) ==
    \E i \in 1..Len(str) : Lower(str[i]) = needle \/ needle \in Inside(str[i])

\* (textLower.match(new RegExp(needle, 'g')) || []).length
Occurrences(str, needle) ==
    Cardinality({i \in 1..Len(str) : Lower(str[i]) = needle \/ needle \in Inside(str[i])})

\* the words each extraction pattern matches: acronyms of 2 to 5 capitals, capitalised
\* names, Korean compounds ending in a technology suffix, digits followed by a unit
patterns ==
    <<{"AI", "GPT", "LLM", "DRAM", "NAND", "HBM", "GPU", "CPU", "NPU", "TPU", "FPGA", "ASIC",
       "TSMC", "LTE", "CDN", "API", "SDK", "NFT", "EV", "IPO", "VC", "GDPR", "OLED"},
      {"Quantum", "Robotics", "Chip", "Chair", "Cloud", "The"},
      {"gyeoljesiseutem"},
      {"5G", "128GB"}>>

commonWords == {"The"}
isCommonWord(word) == word \in commonWords \/ SegLen(word) < 2

\* the elements of s without repetitions, in the order of their first occurrence
Unique(s) ==
    LET First(i) == \A j \in 1..(i - 1) : s[j] # s[i]
        firsts == SelectSeq([i \in 1..Len(s) |-> i], First)
    IN [k \in 1..Len(firsts) |-> s[firsts[k]]]

\* Array.prototype.sort((a, b) => b.key - a.key): descending by key, elements
\* with equal keys in their original order; `keys` are the keys still to be placed
RECURSIVE SortDescFrom(_, _)
SortDescFrom(s, keys) ==
    IF keys = {} THEN <<>>
    ELSE LET top == CHOOSE m \in keys : \A k \in keys : k <= m
             HasTop(e) == e.key = top
         IN SelectSeq(s, HasTop) \o SortDescFrom(s, keys \ {top})

SortDesc(s) == SortDescFrom(s, {s[i].key : i \in 1..Len(s)})

\* techKeywords.forEach(...): the dictionary entries the text contains are pushed
dictionaryPass(keywords, text) ==
    LET textLower == {Lower(text[i]) : i \in 1..Len(text)}
                         \cup UNION {Inside(text[i]) : i \in 1..Len(text)}
        InText(keyword) == Lower(keyword) \in textLower
    IN Unique(keywords \o SelectSeq(techKeywords, InText))

\* cleanText.match(patterns[p]).forEach(...): the words of the text that pattern p
\* matches are pushed unless they are common words or already present
patternPass(keywords, text, p) ==
    LET Matches(w) == w \in patterns[p] /\ SegLen(w) >= 2 /\ ~isCommonWord(w)
    IN Unique(keywords \o SelectSeq(text, Matches))

\* calculateKeywordRelevance(keyword, text)
calculateKeywordRelevance(keyword, text) ==
    (IF Includes(Substring0(text, TITLE_ZONE), Lower(keyword)) THEN 3 ELSE 0)
    + Occurrences(text, Lower(keyword))
    + (IF SegLen(keyword) >= 3 /\ SegLen(keyword) <= 10 THEN 1 ELSE 0)
    + (IF keyword \in patterns[1] \/ keyword \in {"bandoche"} THEN 2 ELSE 0)

\* the candidates of extractKeywords(text), before scoring
candidateKeywords(text) ==
    patternPass(patternPass(patternPass(patternPass(
        dictionaryPass(<<>>, text), text, 1), text, 2), text, 3), text, 4)


\* variant: the candidates are cut to 12 in the order they were pushed, unscored
extractKeywordsUnscored(text) ==
    IF text = <<>> THEN <<>>
    ELSE LET uniqueKeywords == Unique(candidateKeywords(text))
         IN SubSeq(uniqueKeywords, 1, Min(Len(uniqueKeywords), MAX_KEYWORDS))

\* extractKeywords(text)
extractKeywords(text) ==
    IF text = <<>> THEN <<>>
    ELSE LET uniqueKeywords == Unique(candidateKeywords(text))
             scoredKeywords ==
                 SortDesc([i \in 1..Len(uniqueKeywords) |->
                              [key |-> calculateKeywordRelevance(uniqueKeywords[i], text),
                               val |-> uniqueKeywords[i]]])
         IN [i \in 1..Min(Len(scoredKeywords), MAX_KEYWORDS) |-> scoredKeywords[i].val]

\* html.split(/[.!?]/): the runs between full stops
RECURSIVE Split(_)
Split(s) ==
    IF \A i \in 1..Len(s) : s[i] # "." THEN <<s>>
    ELSE LET k == CHOOSE i \in 1..Len(s) : s[i] = "." /\ \A j \in 1..(i - 1) : s[j] # "."
         IN <<SubSeq(s, 1, k - 1)>> \o Split(SubSeq(s, k + 1, Len(s)))

\* sentences.join('. ')
RECURSIVE Join(_)
Join(ss) ==
    IF ss = <<>> THEN <<>>
    ELSE IF Len(ss) = 1 THEN ss[1]
    ELSE ss[1] \o <<".", " ">> \o Join(Tail(ss))

\* cleanSummary(html)
cleanSummary(html) ==
    LET text == ReplaceEntities(StripTags(html))
        all == Split(text)
        LongEnough(x) == StrLen(Trim(x)) > MIN_SENTENCE
        sentences == SelectSeq(all, LongEnough)
    IN Substring0(Join(SubSeq(sentences, 1, Min(Len(sentences), 2))), SUMMARY_MAX) \o <<"...">>

(***************************************************************************)
(* Articles and their JSON form.                                           *)
(***************************************************************************)
Article(id, title, link, published, source, summary, keywords) ==
    [id |-> id, title |-> title, link |-> link, published |-> published,
     source |-> source, summary |-> summary, keywords |-> keywords, is_favorite |-> FALSE]

\* A JSON text: whether JSON.parse accepts it, and the rows it holds, one per
\* article, each the field values in field order.
CORRUPT == [wellFormed |-> FALSE, rows |-> <<>>]

\* JSON.stringify(this.articles)
Stringify(as) ==
    [wellFormed |-> TRUE,
     rows |-> [i \in 1..Len(as) |->
                 <<as[i].id, as[i].title, as[i].link, as[i].published, as[i].source,
                   as[i].summary, as[i].keywords, as[i].is_favorite>>]]

\* JSON.parse(text) for a well-formed text
JsonParse(text) ==
    [i \in 1..Len(text.rows) |->
        [id |-> text.rows[i][1], title |-> text.rows[i][2], link |-> text.rows[i][3],
         published |-> text.rows[i][4], source |-> text.rows[i][5],
         summary |-> text.rows[i][6], keywords |-> text.rows[i][7],
         is_favorite |-> text.rows[i][8]]]

Ids(as) == [i \in 1..Len(as) |-> as[i].id]

(***************************************************************************)
(* The registry and what the outside world may answer.                     *)
(***************************************************************************)
FEEDS == [i \in 1..NumFeeds |-> IF i = 1 THEN "IT-Donga" ELSE IF i = 2 THEN "ETNews" ELSE "Feed"]

\* scraping targets: name (also the source label) and number of pages
SCRAPING_SOURCES == <<[source |-> "Donga-archive", pages |-> 2],
                      [source |-> "TechCrunch-archive", pages |-> 1]>>

Http(x) == <<"http", x>>
\* a date string: whether new Date(str) is a valid date, and the instant it denotes
DateStr(t) == [parses |-> TRUE, time |-> t]
BAD_DATE == [parses |-> FALSE, time |-> 0]
Item(title, link, pubDate) ==
    [title |-> title, link |-> link, url |-> <<>>, pubDate |-> <<DateStr(pubDate)>>,
     description |-> <<>>, categories |-> <<>>]

\* the items arrays an RSS2JSON envelope may carry
ItemsA == <<Item(<<"t1">>, Http("a1"), 90),
            [Item(<<"t2", "&amp;", "t3">>, Http("a2"), 0) EXCEPT !.pubDate = <<BAD_DATE>>]>>
ItemsB == <<Item(<<"t4">>, Http("a1"), 95),
            [Item(<<"t5">>, <<>>, 0) EXCEPT !.pubDate = <<>>],
            Item(<<"t6">>, <<>>, 85),
            [Item(<<"t2", " ", "t3">>, <<>>, 70) EXCEPT !.url = Http("b4")]>>
BigNames == <<"g1", "g2", "g3", "g4", "g5", "g6", "g7", "g8", "g9">>
ItemsBig == [i \in 1..10 |->
                IF i = 10 THEN Item(<<"g9">>, Http("g10"), 50)
                ELSE Item(<<BigNames[i]>>, Http(BigNames[i]), 50 + i)]

\* what one RSS2JSON request may end in
FeedResponses ==
    {[kind |-> "abort"], [kind |-> "network"], [kind |-> "http"], [kind |-> "badjson"],
     [kind |-> "json", status |-> "error", items |-> ItemsA],
     [kind |-> "json", status |-> "ok", items |-> <<>>],
     [kind |-> "json", status |-> "ok", items |-> ItemsA],
     [kind |-> "json", status |-> "ok", items |-> ItemsB],
     [kind |-> "json", status |-> "ok", items |-> ItemsBig]}

LongTitle(w) == <<w, " ", "Robotics">>
\* the pages the AllOrigins proxy may return: the matches of titleRegex and linkRegex
\* HtmlA: a relative link, a short title, a title that is short once trimmed
HtmlA == [titles |-> <<LongTitle("Quantum"), <<"Chip">>, <<" ", " ", "Robotics", " ", " ">>>>,
          links |-> <<<<"/", "p1">>, Http("p2"), Http("p3")>>]
HtmlB == [titles |-> <<LongTitle("Quantum"), LongTitle("Chip"), LongTitle("Chip")>>,
          links |-> <<Http("a1"), Http("p3")>>]

ScrapeResponses ==
    {[kind |-> "throw"], [kind |-> "http"], [kind |-> "json", contents |-> <<>>],
     [kind |-> "json", contents |-> <<HtmlA>>], [kind |-> "json", contents |-> <<HtmlB>>]}

(***************************************************************************)
(* Pure parts of collectNews.                                              *)
(***************************************************************************)
\* parseDate(dateStr): <<>> (null) for a missing or unparseable date, else <<instant>>;
\* dateStr is <<>> when the item has no pubDate
parseDate(dateStr) ==
    IF dateStr = <<>> THEN <<>>
    ELSE IF ~dateStr[1].parses THEN <<>>
    ELSE <<dateStr[1].time>>

\* articles.map(item => ({id: this.nextId++, ...})) for the items of one feed
processedArticles(items, feed, firstId, clock) ==
    [i \in 1..Len(items) |->
        Article(firstId + i - 1,
                cleanTitle(items[i].title),
                IF items[i].link # <<>> THEN items[i].link ELSE items[i].url,
                IF parseDate(items[i].pubDate) # <<>> THEN parseDate(items[i].pubDate)[1] ELSE clock,
                feed,
                cleanSummary(items[i].description),
                extractKeywords(items[i].title \o <<" ">> \o items[i].description
                                \o <<" ">> \o items[i].categories))]

\* the array a feed's request leaves in `articles` (empty unless the envelope conforms)
feedItems(resp) ==
    IF resp.kind = "json" /\ resp.status = "ok" /\ Len(resp.items) > 0
    THEN SubSeq(resp.items, 1, Min(Len(resp.items), 50))
    ELSE <<>>

\* findIndex: hits[j] tells whether element j satisfies the predicate; the index
\* of the first that does, 0 if none (JavaScript's -1)
FirstIndex(hits) ==
    IF \E j \in 1..Len(hits) : hits[j]
    THEN CHOOSE j \in 1..Len(hits) : hits[j] /\ \A k \in 1..(j - 1) : ~hits[k]
    ELSE 0

\* filter: the elements of self whose flag is set, from index i on
RECURSIVE KeepIndices(_, _, _)
KeepIndices(self, keep, i) ==
    IF i > Len(self) THEN <<>>
    ELSE (IF keep[i] THEN <<self[i]>> ELSE <<>>) \o KeepIndices(self, keep, i + 1)

\* allArticles.filter((article, index, self) => index === self.findIndex(a => a.link === article.link))
uniqueByLink(self) ==
    LET keep == [i \in 1..Len(self) |->
                    i = FirstIndex([j \in 1..Len(self) |-> self[j].link = self[i].link])]
    IN KeepIndices(self, keep, 1)

\* variant: the final pass compares titles only
uniqueByTitle(self) ==
    LET keep == [i \in 1..Len(self) |->
                    i = FirstIndex([j \in 1..Len(self) |-> self[j].title = self[i].title])]
    IN KeepIndices(self, keep, 1)

\* uniqueArticles.filter(... index === self.findIndex(a => a.link === article.link || a.title === article.title))
uniqueByLinkOrTitle(self) ==
    LET keep == [i \in 1..Len(self) |->
                    i = FirstIndex([j \in 1..Len(self) |->
                                       self[j].link = self[i].link \/ self[j].title = self[i].title])]
    IN KeepIndices(self, keep, 1)

RECURSIVE Flatten(_)
Flatten(ss) == IF ss = <<>> THEN <<>> ELSE Head(ss) \o Flatten(Tail(ss))

\* variant: the first source without articles ends the merge
RECURSIVE mergeUntilFailure(_)
mergeUntilFailure(results) ==
    IF results = <<>> \/ Len(Head(results).value) = 0 THEN <<>>
    ELSE Head(results).value \o mergeUntilFailure(Tail(results))


\* variant: the fulfilled lists are merged in the order the requests settled (by
\* the ids they drew)
mergeByArrival(results) ==
    LET Filled(f) == results[f].status = "fulfilled" /\ Len(results[f].value) > 0
        filled == SelectSeq([f \in 1..Len(results) |-> f], Filled)
        sorted == SortDesc([k \in 1..Len(filled) |->
                               [key |-> 0 - results[filled[k]].value[1].id,
                                val |-> results[filled[k]].value]])
    IN Flatten([k \in 1..Len(sorted) |-> sorted[k].val])

\* results.forEach(result => { if (result.status === 'fulfilled' && result.value.length > 0)
\*   allArticles.push(...result.value) }), in the order of FEEDS
mergeResults(results) ==
    Flatten([f \in 1..Len(results) |->
                IF results[f].status = "fulfilled" /\ Len(results[f].value) > 0
                THEN results[f].value ELSE <<>>])

\* generateSampleData(): five fixed articles, ids from firstId
SampleTitles == <<"s1", "s2", "s3", "s4", "s5">>
SampleLinks == <<"sample-1", "sample-2", "sample-3", "sample-4", "sample-5">>
SampleSources == <<"IT-sample", "Tech-sample", "VR-sample", "Science-sample", "Blockchain-sample">>
SampleSummaries == <<"summary-1", "summary-2", "summary-3", "summary-4", "summary-5">>
SampleKeywords ==
    << <<"AI", "GPT-4", "jayeoneocheori", "ingongjineung", "gisulbaljeon">>,
       <<"5G", "IoT", "seumateusiti", "jayuljuhaeng", "neteuwokeu">>,
       <<"metabeoseu", "VR", "AR", "wongyeokhoeui", "enteopeuraijeu">>,
       <<"yangjakeompyuting", "yangjaalgorijeum", "syupeokeompyuteo", "gwahakgisul", "hyeoksin">>,
       <<"beullokchein", "dijiteolsinwon", "boan", "gaeinjeongboboho", "pintekeu">> >>
generateSampleData(firstId, clock) ==
    [i \in 1..5 |->
        Article(firstId + i - 1, <<SampleTitles[i]>>, <<"#", SampleLinks[i]>>,
                clock - 60 * i, SampleSources[i], <<SampleSummaries[i]>>, SampleKeywords[i])]

\* parseArticlesFromHTML(html, source): candidates (title, link) that pass the test, in order
RECURSIVE scrapeAccepted(_, _, _)
scrapeAccepted(html, n, i) ==
    IF i > n THEN <<>>
    ELSE LET title == Trim(html.titles[i])
             link == html.links[i]
         IN (IF title # <<>> /\ link # <<>> /\ StrLen(title) > SCRAPE_MIN_TITLE
             THEN <<[title |-> title, link |-> link]>> ELSE <<>>)
            \o scrapeAccepted(html, n, i + 1)

parseArticlesFromHTML(html, source, firstId, clock) ==
    LET n == Min(Min(Len(html.titles), Len(html.links)), SCRAPE_MAX_PER_PAGE)
        acc == scrapeAccepted(html, n, 1)
    IN [i \in 1..Len(acc) |->
           Article(firstId + i - 1,
                   cleanTitle(acc[i].title),
                   IF StartsWithHttp(acc[i].link) THEN acc[i].link
                   ELSE <<"http", "s://", source>> \o acc[i].link,
                   clock, source, <<source, "-scraped">>, extractKeywords(acc[i].title))]

(***************************************************************************)
(* Cache validity and the constructor.                                     *)
(***************************************************************************)
\* variant: a cache exactly CACHE_DURATION old still counts as valid
isCacheValidInclusive ==
    IF lsLastUpdate = <<>> \/ lsLastUpdate[1] = <<>> THEN FALSE
    ELSE LET updateTime == parseInt(lsLastUpdate[1])
         IN updateTime # NaN /\ now - updateTime <= CACHE_DURATION

\* isCacheValid()
isCacheValid ==
    IF lsLastUpdate = <<>> \/ lsLastUpdate[1] = <<>> THEN FALSE
    ELSE LET updateTime == parseInt(lsLastUpdate[1])
         IN updateTime # NaN /\ now - updateTime < CACHE_DURATION

\* variant: adopts the stored list whatever its age
loadFromStorageAnyAge ==
    LET keep == [articles |-> articles, nextId |-> nextId]
    IN IF lsArticles = <<>> \/ lsLastUpdate = <<>> \/ lsLastUpdate[1] = <<>> THEN keep
       ELSE IF lsArticles[1].wellFormed
            THEN [articles |-> JsonParse(lsArticles[1]),
                  nextId |-> SeqMax(Ids(JsonParse(lsArticles[1]))) + 1]
            ELSE keep

\* variant: adopts the stored list and leaves nextId alone
loadFromStorageKeepId ==
    LET keep == [articles |-> articles, nextId |-> nextId]
    IN IF lsArticles = <<>> \/ lsLastUpdate = <<>> \/ lsLastUpdate[1] = <<>> THEN keep
       ELSE LET updateTime == parseInt(lsLastUpdate[1])
            IN IF updateTime # NaN /\ now - updateTime < CACHE_DURATION /\ lsArticles[1].wellFormed
               THEN [articles |-> JsonParse(lsArticles[1]), nextId |-> nextId]
               ELSE keep

\* loadFromStorage(): the fields articles and nextId after the call
loadFromStorage ==
    LET keep == [articles |-> articles, nextId |-> nextId]
    IN IF lsArticles = <<>> \/ lsLastUpdate = <<>> \/ lsLastUpdate[1] = <<>> THEN keep
       ELSE LET updateTime == parseInt(lsLastUpdate[1])
            IN IF updateTime # NaN /\ now - updateTime < CACHE_DURATION
               THEN IF lsArticles[1].wellFormed
                    THEN [articles |-> JsonParse(lsArticles[1]),
                          nextId |-> SeqMax(Ids(JsonParse(lsArticles[1]))) + 1]
                    ELSE keep
               ELSE keep

\* One invocation: its position (pc), its argument and locals, the list its
\* promise resolved to (ret) and when (doneAt), and whether another invocation
\* was in flight during it (overlapped).  The locals and ret are kept after
\* the invocation has returned, until the caller invokes collectNews again.
IdleRun ==
    [pc |-> "idle", maxFeeds |-> 0, results |-> <<>>,
     uniqueArticles |-> <<>>, scrapedArticles |-> <<>>, src |-> 0, page |-> 0,
     ret |-> <<>>, doneAt |-> 0, overlapped |-> FALSE]

\* The callers of collectNews: the dashboard (its refresh control is disabled
\* while a collection is running) and the auto-refresh timer.  One invocation
\* per caller is in flight at a time.
Callers == {"manual", "auto"}
InFlight(r) == runs[r].pc \notin {"idle", "done"}

\* new NewsService(): loadFromStorage(); startAutoRefresh()
Construct ==
    /\ ~started
    /\ started' = TRUE
    /\ articles' = loadFromStorage.articles
    /\ nextId' = loadFromStorage.nextId
    /\ timer' = <<now + CACHE_DURATION>>
    /\ UNCHANGED <<now, lsArticles, lsLastUpdate, runs, lastDone, view>>

\* the clock advances; a due timer callback runs before the clock moves on
Advance(d) ==
    /\ started
    /\ now + d <= MaxTime
    /\ timer = <<>> \/ now + d <= timer[1]
    /\ now' = now + d
    /\ UNCHANGED <<started, articles, nextId, lsArticles, lsLastUpdate, timer, runs, lastDone, view>>

(***************************************************************************)
(* collectNews.                                                            *)
(***************************************************************************)
\* collectNews(maxFeeds) up to its first suspension: one request per selected feed
startCollect(r, maxFeeds) ==
    [s \in Callers |->
        IF s = r
        THEN [IdleRun EXCEPT !.pc = "feeds", !.maxFeeds = maxFeeds,
                             !.results = [f \in 1..Min(maxFeeds, Len(FEEDS)) |->
                                             [status |-> "pending", value |-> <<>>]],
                             !.overlapped = \E o \in Callers : InFlight(o)]
        ELSE IF InFlight(s) THEN [runs[s] EXCEPT !.overlapped = TRUE]
        ELSE runs[s]]

CanStart(r) == ~InFlight(r) /\ nextId <= MaxStartId

\* variant: the callback collects without looking at the cache
AutoRefreshTickAlways ==
    /\ started
    /\ timer # <<>> /\ now = timer[1]
    /\ timer' = <<now + CACHE_DURATION>>
    /\ CanStart("auto") /\ runs' = startCollect("auto", AUTO_MAX_FEEDS)
    /\ UNCHANGED <<started, now, articles, nextId, lsArticles, lsLastUpdate, lastDone, view>>

\* variant: the callback collects when the cache is empty, not when it is stale
AutoRefreshTickIfEmpty ==
    /\ started
    /\ timer # <<>> /\ now = timer[1]
    /\ timer' = <<now + CACHE_DURATION>>
    /\ IF articles = <<>>
       THEN CanStart("auto") /\ runs' = startCollect("auto", AUTO_MAX_FEEDS)
       ELSE UNCHANGED runs
    /\ UNCHANGED <<started, now, articles, nextId, lsArticles, lsLastUpdate, lastDone, view>>

\* the setInterval callback of startAutoRefresh
AutoRefreshTick ==
    /\ started
    /\ timer # <<>> /\ now = timer[1]
    /\ timer' = <<now + CACHE_DURATION>>
    /\ IF ~isCacheValid
       THEN CanStart("auto") /\ runs' = startCollect("auto", AUTO_MAX_FEEDS)
       ELSE UNCHANGED runs
    /\ UNCHANGED <<started, now, articles, nextId, lsArticles, lsLastUpdate, lastDone, view>>

\* a caller of collectNews(maxFeeds); the dashboard's refresh button first removes
\* both localStorage keys (clear)
ManualCollect(maxFeeds, clear) ==
    /\ started
    /\ CanStart("manual")
    /\ runs' = startCollect("manual", maxFeeds)
    /\ lsArticles' = IF clear THEN <<>> ELSE lsArticles
    /\ lsLastUpdate' = IF clear THEN <<>> ELSE lsLastUpdate
    /\ UNCHANGED <<started, now, articles, nextId, timer, lastDone, view>>

\* the requests of run r that have been sent and have not settled
outstanding(r) ==
    {[kind |-> "rss", src |-> f, page |-> 0] :
        f \in {g \in 1..Len(runs[r].results) : runs[r].results[g].status = "pending"}}
    \cup (IF runs[r].pc = "scrapeFetch"
          THEN {[kind |-> "scrape", src |-> runs[r].src, page |-> runs[r].page]} ELSE {})

\* those of them that were sent with the signal of an AbortController whose timer
\* is running: the RSS2JSON requests; the proxy request is sent with headers only
cancellable(r) ==
    {[kind |-> "rss", src |-> f, page |-> 0] :
        f \in {g \in 1..Len(runs[r].results) : runs[r].results[g].status = "pending"}}

\* the request of feed f of run r settles with resp; the feed's async function runs to its end
FeedSettle(r, f, resp) ==
    /\ runs[r].pc = "feeds"
    /\ f \in 1..Len(runs[r].results)
    /\ runs[r].results[f].status = "pending"
    /\ LET items == feedItems(resp)
           value == processedArticles(items, FEEDS[f], nextId, now)
       IN /\ nextId' = nextId + Len(items)
          /\ runs' = [runs EXCEPT ![r].results[f] = [status |-> "fulfilled", value |-> value]]
    /\ UNCHANGED <<started, now, articles, lsArticles, lsLastUpdate, timer, lastDone, view>>

\* the position after page `page` of target `src`: the next page, or past the last target
nextPage(src, page) ==
    IF page < SCRAPING_SOURCES[src].pages THEN [src |-> src, page |-> page + 1]
    ELSE [src |-> src + 1, page |-> 1]

\* variant: the deduplicated RSS list is published before the scraping pass
JoinFeedsPublishing(r) ==
    /\ runs[r].pc = "feeds"
    /\ \A f \in 1..Len(runs[r].results) : runs[r].results[f].status # "pending"
    /\ runs' = [runs EXCEPT ![r].pc = "scrapeFetch",
                            ![r].uniqueArticles = uniqueByLink(mergeResults(runs[r].results)),
                            ![r].src = 1, ![r].page = 1]
    /\ articles' = uniqueByLink(mergeResults(runs[r].results))
    /\ UNCHANGED <<started, now, nextId, lsArticles, lsLastUpdate, timer, lastDone, view>>

\* Promise.allSettled resolves: merge, first deduplication, scrapeWebSources() up to its first request
JoinFeeds(r) ==
    /\ runs[r].pc = "feeds"
    /\ \A f \in 1..Len(runs[r].results) : runs[r].results[f].status # "pending"
    /\ runs' = [runs EXCEPT ![r].pc = "scrapeFetch",
                            ![r].uniqueArticles = uniqueByLink(mergeResults(runs[r].results)),
                            ![r].src = 1, ![r].page = 1]
    /\ UNCHANGED <<started, now, articles, nextId, lsArticles, lsLastUpdate, timer, lastDone, view>>

\* where the scraping loop goes after a page: the next request, or the end of scrapeWebSources
afterPage(run) ==
    LET np == nextPage(run.src, run.page)
    IN IF np.src > Len(SCRAPING_SOURCES)
       THEN [run EXCEPT !.pc = "scraped", !.src = 0, !.page = 0]
       ELSE [run EXCEPT !.pc = "scrapeFetch", !.src = np.src, !.page = np.page]

\* the proxy request for the current page settles with resp
ScrapeResponse(r, resp) ==
    /\ runs[r].pc = "scrapeFetch"
    /\ IF resp.kind = "json" /\ resp.contents # <<>>
       THEN LET found == parseArticlesFromHTML(resp.contents[1],
                                               SCRAPING_SOURCES[runs[r].src].source, nextId, now)
            IN /\ nextId' = nextId + Len(found)
               /\ runs' = [runs EXCEPT ![r].pc = "scrapePause",
                                       ![r].scrapedArticles = runs[r].scrapedArticles \o found]
       ELSE /\ nextId' = nextId
            /\ runs' = [runs EXCEPT ![r] = afterPage(runs[r])]
    /\ UNCHANGED <<started, now, articles, lsArticles, lsLastUpdate, timer, lastDone, view>>

\* the one-second pause after a scraped page ends
ScrapePauseEnd(r) ==
    /\ runs[r].pc = "scrapePause"
    /\ runs' = [runs EXCEPT ![r] = afterPage(runs[r])]
    /\ UNCHANGED <<started, now, articles, nextId, lsArticles, lsLastUpdate, timer, lastDone, view>>


\* variant: the scraped articles are put in front of the RSS articles
finalUniqueScrapedFirst(uniqueArticles, scrapedArticles) ==
    uniqueByLinkOrTitle(scrapedArticles \o uniqueArticles)

\* uniqueArticles.push(...scrapedArticles) and the final deduplication
finalUniqueArticles(uniqueArticles, scrapedArticles) ==
    uniqueByLinkOrTitle(uniqueArticles \o scrapedArticles)

\* variant: pads a list of exactly MIN_ARTICLES articles as well
finalArticlesInclusive(final, firstId, clock) ==
    IF Len(final) <= MIN_ARTICLES THEN final \o generateSampleData(firstId, clock) ELSE final

\* the list collectNews commits and returns: the final list, padded when it is short
finalArticles(final, firstId, clock) ==
    IF Len(final) < MIN_ARTICLES THEN final \o generateSampleData(firstId, clock) ELSE final

\* variant: the new list is appended to the cache
CommitAppending(r) ==
    /\ runs[r].pc = "scraped"
    /\ LET final == finalUniqueArticles(runs[r].uniqueArticles, runs[r].scrapedArticles)
           result == finalArticles(final, nextId, now)
       IN /\ articles' = articles \o result
          /\ nextId' = nextId + (Len(result) - Len(final))
          /\ lsArticles' = <<Stringify(articles \o result)>>
          /\ lsLastUpdate' = <<NumToString(now)>>
          /\ runs' = [runs EXCEPT ![r].pc = "done", ![r].ret = result, ![r].doneAt = now]
    /\ lastDone' = r
    /\ UNCHANGED <<started, now, timer, view>>

\* variant: an invocation that was overtaken by another one does not swap the cache
CommitUnlessOvertaken(r) ==
    /\ runs[r].pc = "scraped"
    /\ LET final == finalUniqueArticles(runs[r].uniqueArticles, runs[r].scrapedArticles)
           result == finalArticles(final, nextId, now)
           overtaken == runs[r].overlapped /\ lastDone \notin {"none", r}
       IN /\ articles' = IF overtaken THEN articles ELSE result
          /\ nextId' = nextId + (Len(result) - Len(final))
          /\ lsArticles' = IF overtaken THEN lsArticles ELSE <<Stringify(result)>>
          /\ lsLastUpdate' = IF overtaken THEN lsLastUpdate ELSE <<NumToString(now)>>
          /\ runs' = [runs EXCEPT ![r].pc = "done", ![r].ret = result, ![r].doneAt = now]
    /\ lastDone' = r
    /\ UNCHANGED <<started, now, timer, view>>

\* variant: an article of the new list takes the mark of the cached article with
\* the same link
CommitKeepingFavorites(r) ==
    /\ runs[r].pc = "scraped"
    /\ LET final == finalUniqueArticles(runs[r].uniqueArticles, runs[r].scrapedArticles)
           fresh == finalArticles(final, nextId, now)
           Marked(a) == \E i \in 1..Len(articles) :
                           articles[i].link = a.link /\ articles[i].is_favorite
           result == [i \in 1..Len(fresh) |-> [fresh[i] EXCEPT !.is_favorite = Marked(fresh[i])]]
       IN /\ articles' = result
          /\ nextId' = nextId + (Len(result) - Len(final))
          /\ lsArticles' = <<Stringify(result)>>
          /\ lsLastUpdate' = <<NumToString(now)>>
          /\ runs' = [runs EXCEPT ![r].pc = "done", ![r].ret = result, ![r].doneAt = now]
    /\ lastDone' = r
    /\ UNCHANGED <<started, now, timer, view>>

\* collectNews after scrapeWebSources() returned: this.articles = ...; saveToStorage(); return
Commit(r) ==
    /\ runs[r].pc = "scraped"
    /\ LET final == finalUniqueArticles(runs[r].uniqueArticles, runs[r].scrapedArticles)
           result == finalArticles(final, nextId, now)
       IN /\ articles' = result
          /\ nextId' = nextId + (Len(result) - Len(final))
          /\ lsArticles' = <<Stringify(result)>>
          /\ lsLastUpdate' = <<NumToString(now)>>
          /\ runs' = [runs EXCEPT ![r].pc = "done", ![r].ret = result, ![r].doneAt = now]
    /\ lastDone' = r
    /\ UNCHANGED <<started, now, timer, view>>


\* variant: the article is marked, never unmarked
toggleFavoriteMarkOnly(as, articleId) ==
    LET i == FirstIndex([j \in 1..Len(as) |-> as[j].id = articleId])
    IN IF i = 0 THEN as ELSE [as EXCEPT ![i].is_favorite = TRUE]

\* variant: the argument is taken for a position in the list
toggleFavoriteByPosition(as, articleId) ==
    IF articleId \in 1..Len(as)
    THEN [as EXCEPT ![articleId].is_favorite = ~as[articleId].is_favorite]
    ELSE as

\* toggleFavorite(articleId)
toggleFavorite(as, articleId) ==
    LET i == FirstIndex([j \in 1..Len(as) |-> as[j].id = articleId])
    IN IF i = 0 THEN as ELSE [as EXCEPT ![i].is_favorite = ~as[i].is_favorite]

ToggleFavorite(articleId) ==
    /\ started
    /\ articles' = toggleFavorite(articles, articleId)
    /\ UNCHANGED <<started, now, nextId, lsArticles, lsLastUpdate, timer, runs, lastDone, view>>

(***************************************************************************)
(* The reads: getFilteredArticles, getKeywordStats, getKeywordNetwork.     *)
(***************************************************************************)
MAX_STATS == 30
MAX_NODES == 15
MAX_EDGES == 20

\* filters: search, source, dateFrom and dateTo are <<>> when the caller leaves them
\* out (search also when it is ''), else <<value>>; a search text is one word
NoFilters ==
    [search |-> <<>>, source |-> <<>>, dateFrom |-> <<>>, dateTo |-> <<>>, favoritesOnly |-> FALSE]

\* what a read returned: the call (op, filters or text) and, in the field of its
\* kind, the value; no read has been made yet
NoView ==
    [op |-> "none", filters |-> NoFilters, text |-> <<>>, items |-> <<>>, valid |-> FALSE,
     list |-> <<>>, stats |-> <<>>, nodes |-> <<>>, edges |-> <<>>, keywords |-> <<>>]

\* title, summary or one of the keywords contains searchLower
searchHit(article, searchLower) ==
    \/ Includes(article.title, searchLower)
    \/ Includes(article.summary, searchLower)
    \/ \E k \in 1..Len(article.keywords) : Includes(<<article.keywords[k]>>, searchLower)

\* variant: the filtered list is returned in cache order
sortByPublishedOmitted(filtered) == filtered

\* filtered.sort((a, b) => new Date(b.published).getTime() - new Date(a.published).getTime())
sortByPublished(filtered) ==
    LET sorted == SortDesc([i \in 1..Len(filtered) |->
                               [key |-> filtered[i].published, val |-> filtered[i]]])
    IN [i \in 1..Len(sorted) |-> sorted[i].val]

\* variant: the favourites are taken from the whole cache, not from the filtered list
getFilteredArticlesFavoritesOfAll(as, filters) ==
    LET BySearch(a) == searchHit(a, Lower(filters.search[1]))
        BySource(a) == a.source = filters.source[1]
        ByFavorite(a) == a.is_favorite
        f1 == IF filters.search # <<>> THEN SelectSeq(as, BySearch) ELSE as
        f2 == IF filters.source # <<>> /\ filters.source # <<"all">>
              THEN SelectSeq(f1, BySource) ELSE f1
        f5 == IF filters.favoritesOnly THEN SelectSeq(as, ByFavorite) ELSE f2
    IN sortByPublished(f5)

\* getFilteredArticles(filters) on the cache `as`
getFilteredArticles(as, filters) ==
    LET BySearch(a) == searchHit(a, Lower(filters.search[1]))
        BySource(a) == a.source = filters.source[1]
        ByDateFrom(a) == a.published >= filters.dateFrom[1]
        ByDateTo(a) == a.published <= filters.dateTo[1]
        ByFavorite(a) == a.is_favorite
        f1 == IF filters.search # <<>> THEN SelectSeq(as, BySearch) ELSE as
        f2 == IF filters.source # <<>> /\ filters.source # <<"all">>
              THEN SelectSeq(f1, BySource) ELSE f1
        f3 == IF filters.dateFrom # <<>> THEN SelectSeq(f2, ByDateFrom) ELSE f2
        f4 == IF filters.dateTo # <<>> THEN SelectSeq(f3, ByDateTo) ELSE f3
        f5 == IF filters.favoritesOnly THEN SelectSeq(f4, ByFavorite) ELSE f4
    IN sortByPublished(f5)

\* the keyword lists of all articles, one after the other
allKeywords(as) == Flatten([i \in 1..Len(as) |-> as[i].keywords])

\* keywordCount[keyword] after the loop over `flat`
countIn(flat, x) == Cardinality({j \in 1..Len(flat) : flat[j] = x})

\* variant: the entries are cut to 30 in the order the keywords were first counted
getKeywordStatsUnsorted(as) ==
    LET flat == allKeywords(as)
        keys == Unique(flat)
    IN [i \in 1..Min(Len(keys), MAX_STATS) |->
           [keyword |-> keys[i], count |-> countIn(flat, keys[i])]]

\* getKeywordStats() on the cache `as`
getKeywordStats(as) ==
    LET flat == allKeywords(as)
        keys == Unique(flat)
        sorted == SortDesc([i \in 1..Len(keys) |->
                               [key |-> countIn(flat, keys[i]), val |-> keys[i]]])
    IN [i \in 1..Min(Len(sorted), MAX_STATS) |->
           [keyword |-> sorted[i].val, count |-> sorted[i].key]]

\* the keywords the model knows in the order of String comparison (code units:
\* digits, capitals, small letters, then Hangul in the order of the originals)
CodeUnitOrder ==
    <<"128GB", "5G", "AI", "API", "AR", "ASIC", "CDN", "CPU", "Chair", "Chip", "Cloud",
      "DRAM", "EV", "FPGA", "GDPR", "GPT", "GPT-4", "GPU", "HBM", "IPO", "IoT", "LLM",
      "LTE", "NAND", "NFT", "NPU", "OLED", "Quantum", "Robotics", "SDK", "TPU", "TSMC",
      "VC", "VR",
      "gaeinjeongboboho", "gyeoljesiseutem", "gwahakgisul", "gisulbaljeon", "neteuwokeu",
      "dijiteolsinwon", "metabeoseu", "bandoche", "boan", "beullokchein",
      "syupeokeompyuteo", "seumateusiti", "yangjaalgorijeum", "yangjakeompyuting",
      "enteopeuraijeu", "wongyeokhoeui", "ingongjineung", "jayeoneocheori", "jayuljuhaeng",
      "pintekeu", "hyeoksin">>

Rank(k) == CHOOSE i \in 1..Len(CodeUnitOrder) : CodeUnitOrder[i] = k

\* [a, b].sort(): the key of the pair, smaller word first
sortedPair(a, b) == IF Rank(a) <= Rank(b) THEN <<a, b>> ELSE <<b, a>>

\* the pairs the double loop over one keyword list visits, in loop order
pairsOf(keywords) ==
    Flatten([i \in 1..Len(keywords) |->
                [d \in 1..(Len(keywords) - i) |-> sortedPair(keywords[i], keywords[i + d])]])

\* the pair keys of all articles, in the order the loops visit them
allPairs(as) == Flatten([i \in 1..Len(as) |-> pairsOf(as[i].keywords)])

\* variant: every one of the first 20 frequent pairs becomes an edge
getKeywordNetworkAnyPair(as) ==
    LET keywordStats == getKeywordStats(as)
        topKeywords == SubSeq(keywordStats, 1, Min(Len(keywordStats), MAX_NODES))
        flat == allPairs(as)
        Frequent(pair) == countIn(flat, pair) > 1
        frequent == SelectSeq(Unique(flat), Frequent)
        kept == SubSeq(frequent, 1, Min(Len(frequent), MAX_EDGES))
    IN [nodes |-> [i \in 1..Len(topKeywords) |->
                      [id |-> topKeywords[i].keyword, label |-> topKeywords[i].keyword,
                       value |-> topKeywords[i].count * 2]],
        edges |-> [i \in 1..Len(kept) |->
                      [from |-> kept[i][1], to |-> kept[i][2], value |-> countIn(flat, kept[i])]]]

\* getKeywordNetwork() on the cache `as`
getKeywordNetwork(as) ==
    LET keywordStats == getKeywordStats(as)
        topKeywords == SubSeq(keywordStats, 1, Min(Len(keywordStats), MAX_NODES))
        nodes == [i \in 1..Len(topKeywords) |->
                     [id |-> topKeywords[i].keyword, label |-> topKeywords[i].keyword,
                      value |-> topKeywords[i].count * 2]]
        flat == allPairs(as)
        keywordPairs == Unique(flat)
        Frequent(pair) == countIn(flat, pair) > 1
        frequent == SelectSeq(keywordPairs, Frequent)
        first == SubSeq(frequent, 1, Min(Len(frequent), MAX_EDGES))
        topKeywordSet == {topKeywords[i].keyword : i \in 1..Len(topKeywords)}
        BothTop(pair) == pair[1] \in topKeywordSet /\ pair[2] \in topKeywordSet
        kept == SelectSeq(first, BothTop)
    IN [nodes |-> nodes,
        edges |-> [i \in 1..Len(kept) |->
                      [from |-> kept[i][1], to |-> kept[i][2], value |-> countIn(flat, kept[i])]]]

\* variant: the read sorts the cache itself, not a copy of it
GetFilteredArticlesInPlace(filters) ==
    /\ started
    /\ view' = [NoView EXCEPT !.op = "getFilteredArticles", !.filters = filters,
                                !.list = getFilteredArticles(articles, filters)]
    /\ articles' = sortByPublished(articles)
    /\ UNCHANGED <<started, now, nextId, lsArticles, lsLastUpdate, timer, runs, lastDone>>

\* a caller reads the filtered list
GetFilteredArticles(filters) ==
    /\ started
    /\ view' = [NoView EXCEPT !.op = "getFilteredArticles", !.filters = filters,
                                !.list = getFilteredArticles(articles, filters)]
    /\ UNCHANGED <<started, now, articles, nextId, lsArticles, lsLastUpdate, timer, runs, lastDone>>

\* a caller reads the keyword statistics
GetKeywordStats ==
    /\ started
    /\ view' = [NoView EXCEPT !.op = "getKeywordStats", !.stats = getKeywordStats(articles)]
    /\ UNCHANGED <<started, now, articles, nextId, lsArticles, lsLastUpdate, timer, runs, lastDone>>

\* a caller reads the keyword network
GetKeywordNetwork ==
    /\ started
    /\ view' = [NoView EXCEPT !.op = "getKeywordNetwork",
                                !.nodes = getKeywordNetwork(articles).nodes,
                                !.edges = getKeywordNetwork(articles).edges]
    /\ UNCHANGED <<started, now, articles, nextId, lsArticles, lsLastUpdate, timer, runs, lastDone>>

\* a caller asks whether the stored collection is still fresh
IsCacheValid ==
    /\ started
    /\ view' = [NoView EXCEPT !.op = "isCacheValid", !.valid = isCacheValid]
    /\ UNCHANGED <<started, now, articles, nextId, lsArticles, lsLastUpdate, timer, runs, lastDone>>

\* extractKeywords is applied to the text at hand
ExtractKeywords ==
    /\ view.op = "none"
    /\ view' = [view EXCEPT !.op = "extractKeywords", !.keywords = extractKeywords(view.text)]
    /\ UNCHANGED <<started, now, articles, nextId, lsArticles, lsLastUpdate, timer, runs, lastDone>>

(***************************************************************************)
(* parseRSSFromXML.  The feed text is taken as the sequence of its item or *)
(* entry elements, each with what titleRegex, linkRegex, guidRegex,        *)
(* pubDateRegex and descRegex capture in it (<<>>: no match, or an empty   *)
(* capture).                                                               *)
(***************************************************************************)
MAX_XML_ITEMS == 15

XmlItem(title, link, guid) ==
    [title |-> title, link |-> link, guid |-> guid, pubDate |-> <<>>, description |-> <<>>]

\* textarea.innerHTML = text; textarea.value
decodeHtmlEntities(text) ==
    [i \in 1..Len(text) |-> IF text[i] \in Entities THEN "&" ELSE text[i]]

\* the link of an item: the trimmed link, else a guid that starts with http, else ''
xmlLink(item) ==
    IF Trim(item.link) # <<>> THEN Trim(item.link)
    ELSE IF item.guid # <<>> /\ StartsWithHttp(Trim(item.guid)) THEN Trim(item.guid)
    ELSE <<>>

\* the record pushed for an accepted item when `count` records were pushed before
xmlRecord(item, source, clock, count) ==
    [title |-> decodeHtmlEntities(Trim(item.title)),
     link |-> IF xmlLink(item) # <<>> THEN xmlLink(item)
              ELSE <<"#", source, "-">> \o NumToString(count),
     pubDate |-> IF item.pubDate # <<>> THEN item.pubDate ELSE <<DateStr(clock)>>,
     description |-> decodeHtmlEntities(Trim(item.description))]

\* variant: the link is waived for the first item of the feed only
RECURSIVE xmlLoopFirstItemOnly(_, _, _, _, _)
xmlLoopFirstItemOnly(xml, source, clock, i, items) ==
    IF i > Len(xml) \/ Len(items) >= MAX_XML_ITEMS THEN items
    ELSE IF Trim(xml[i].title) # <<>> /\ (xmlLink(xml[i]) # <<>> \/ i = 1)
         THEN xmlLoopFirstItemOnly(xml, source, clock, i + 1,
                                   Append(items, xmlRecord(xml[i], source, clock, Len(items))))
         ELSE xmlLoopFirstItemOnly(xml, source, clock, i + 1, items)

\* the while loop from element i on; `items` are the records pushed so far (count
\* is their number)
RECURSIVE xmlLoop(_, _, _, _, _)
xmlLoop(xml, source, clock, i, items) ==
    IF i > Len(xml) \/ Len(items) >= MAX_XML_ITEMS THEN items
    ELSE IF Trim(xml[i].title) # <<>> /\ (xmlLink(xml[i]) # <<>> \/ Len(items) = 0)
         THEN xmlLoop(xml, source, clock, i + 1,
                      Append(items, xmlRecord(xml[i], source, clock, Len(items))))
         ELSE xmlLoop(xml, source, clock, i + 1, items)

\* parseRSSFromXML(xmlContent, source)
parseRSSFromXML(xmlContent, source, clock) == xmlLoop(xmlContent, source, clock, 1, <<>>)

\* parseRSSFromXML is applied to the feed text at hand
ParseRSSFromXML ==
    /\ view.op = "none"
    /\ view' = [view EXCEPT !.op = "parseRSSFromXML",
                             !.list = parseRSSFromXML(view.items, FEEDS[1], now)]
    /\ UNCHANGED <<started, now, articles, nextId, lsArticles, lsLastUpdate, timer, runs, lastDone>>

(***************************************************************************)
(* What localStorage may hold when the page is loaded.                     *)
(***************************************************************************)
\* a list an earlier page session committed at time ts (no source answered), ids from firstId
Snapshot(firstId, ts) == finalArticles(<<>>, firstId, ts)

Absent == [a |-> <<>>, t |-> <<>>]
Saved(firstId, ts) == [a |-> <<Stringify(Snapshot(firstId, ts))>>, t |-> <<NumToString(ts)>>]

SnapshotAges == {0, CACHE_DURATION - 1, CACHE_DURATION, CACHE_DURATION + 1}
PriorStores ==
    {Absent}
    \cup {Saved(f, T0 - age) : f \in {1, 2}, age \in SnapshotAges}
    \cup {[a |-> <<CORRUPT>>, t |-> <<NumToString(T0 - 1)>>],
          [a |-> <<Stringify(Snapshot(1, T0 - 1))>>, t |-> <<>>],
          [a |-> <<Stringify(Snapshot(1, T0 - 1))>>, t |-> <<<<"x">>>>]}

InitWith(stores) ==
    /\ started = FALSE
    /\ now = T0
    /\ articles = <<>>
    /\ nextId = 1
    /\ timer = <<>>
    /\ runs = [r \in Callers |-> IdleRun]
    /\ lastDone = "none"
    /\ view = NoView
    /\ \E st \in stores : lsArticles = st.a /\ lsLastUpdate = st.t

(***************************************************************************)
(* Specifications: the same actions in different environments.             *)
(***************************************************************************)
OneItem == <<Item(<<"t1">>, Http("a1"), 90)>>
HtmlOne == [titles |-> <<LongTitle("Quantum")>>, links |-> <<Http("a1")>>]
FewFeedResponses ==
    {[kind |-> "abort"], [kind |-> "http"], [kind |-> "json", status |-> "ok", items |-> OneItem]}
FewScrapeResponses == {[kind |-> "throw"], [kind |-> "json", contents |-> <<HtmlOne>>]}

\* the page is loaded on a stored list that is still valid; both callers collect
Init == InitWith({Saved(1, T0 - 1)})

Next ==
    \/ Construct
    \/ \E d \in {CACHE_DURATION} : Advance(d)
    \/ AutoRefreshTick
    \/ \E m \in {1}, c \in BOOLEAN : ManualCollect(m, c)
    \/ \E r \in Callers, f \in 1..NumFeeds, resp \in FewFeedResponses : FeedSettle(r, f, resp)
    \/ \E r \in Callers : JoinFeeds(r)
    \/ \E r \in Callers, resp \in FewScrapeResponses : ScrapeResponse(r, resp)
    \/ \E r \in Callers : ScrapePauseEnd(r)
    \/ \E r \in Callers : Commit(r)
    \/ \E id \in {1} : ToggleFavorite(id)

Spec == Init /\ [][Next]_vars

\* one caller, every answer
InitCollect == InitWith({Absent})

NextCollect ==
    \/ Construct
    \/ \E m \in {1, DEFAULT_MAX_FEEDS}, c \in BOOLEAN : ManualCollect(m, c)
    \/ \E f \in 1..NumFeeds, resp \in FeedResponses : FeedSettle("manual", f, resp)
    \/ JoinFeeds("manual")
    \/ \E resp \in ScrapeResponses : ScrapeResponse("manual", resp)
    \/ ScrapePauseEnd("manual")
    \/ Commit("manual")
    \/ \E id \in {1} : ToggleFavorite(id)

SpecCollect == InitCollect /\ [][NextCollect]_vars

\* the clock in minutes, every stored snapshot, sources that are down
HtmlNone == [titles |-> <<<<"Chip">>>>, links |-> <<Http("p1")>>]
DownFeedResponses == {[kind |-> "abort"], [kind |-> "network"]}
DownScrapeResponses == {[kind |-> "http"], [kind |-> "json", contents |-> <<HtmlNone>>]}

InitClock == InitWith(PriorStores)

NextClock ==
    \/ Construct
    \/ \E d \in {1, CACHE_DURATION - 1} : Advance(d)
    \/ AutoRefreshTick
    \/ \E m \in {UI_MAX_FEEDS}, c \in BOOLEAN : ManualCollect(m, c)
    \/ \E r \in Callers, f \in 1..NumFeeds, resp \in DownFeedResponses : FeedSettle(r, f, resp)
    \/ \E r \in Callers : JoinFeeds(r)
    \/ \E r \in Callers, resp \in DownScrapeResponses : ScrapeResponse(r, resp)
    \/ \E r \in Callers : ScrapePauseEnd(r)
    \/ \E r \in Callers : Commit(r)
    \/ \E id \in {1} : ToggleFavorite(id)

SpecClock == InitClock /\ [][NextClock]_vars

\* the dashboard reads a cache built from feeds that answer with tagged items
Spaced(words) ==
    [i \in 1..(2 * Len(words) - 1) |-> IF i % 2 = 1 THEN words[(i + 1) \div 2] ELSE " "]
TagsSeven == Spaced(<<"GPT", "LLM", "DRAM", "NAND", "HBM", "GPU", "CPU">>)
TagsTwelve == Spaced(<<"NPU", "TPU", "FPGA", "ASIC", "TSMC", "LTE", "CDN", "API", "SDK",
                       "NFT", "IPO", "GDPR">>)
Tagged(title, link, pubDate, categories) ==
    [Item(<<title>>, Http(link), pubDate) EXCEPT !.categories = categories]
ItemsNet == <<Tagged("n1", "n1", 50, TagsSeven), Tagged("n2", "n2", 95, TagsSeven),
              Tagged("n3", "n3", 70, TagsTwelve), Tagged("n4", "n4", 95, TagsTwelve),
              Tagged("n5", "n5", 60, TagsTwelve)>>
ItemsPair == <<Tagged("n6", "n6", 80, TagsTwelve),
               [Tagged("n7", "n7", 85, TagsTwelve) EXCEPT
                   !.description = <<"Chair", " ", "<b>", "lorem", ".", "t1", ".", "&amp;", "OLED", " ", "lorem", ".", "lorem">>]>>
QueryFeedResponses ==
    {[kind |-> "abort"],
     [kind |-> "json", status |-> "ok", items |-> ItemsNet],
     [kind |-> "json", status |-> "ok", items |-> ItemsPair]}
QueryScrapeResponses == {[kind |-> "throw"], [kind |-> "json", contents |-> <<HtmlB>>]}

\* the criteria a read may carry
Criteria ==
    [search : {<<>>, <<"GPT">>, <<"ai">>},
     source : {<<>>, <<"all">>, <<FEEDS[1]>>},
     dateFrom : {<<>>, <<70>>},
     dateTo : {<<>>, <<95>>},
     favoritesOnly : BOOLEAN]
ShownFilters ==
    {NoFilters,
     [NoFilters EXCEPT !.favoritesOnly = TRUE],
     [NoFilters EXCEPT !.search = <<"GPT">>, !.source = <<FEEDS[1]>>],
     [NoFilters EXCEPT !.dateFrom = <<70>>, !.dateTo = <<95>>],
     [NoFilters EXCEPT !.search = <<"ai">>, !.source = <<"all">>, !.favoritesOnly = TRUE]}
ToggleIds == {1, 7}

\* no collectNews is in flight
Quiet == \A r \in Callers : ~InFlight(r)

\* a caller collects from the first feed, and reads and toggles once the collection
\* has returned
InitQuery == InitWith({Absent, Saved(1, T0 - 1)})

NextQuery ==
    \/ Construct
    \/ view = NoView /\ \E c \in BOOLEAN : ManualCollect(1, c)
    \/ \E f \in 1..NumFeeds, resp \in QueryFeedResponses : FeedSettle("manual", f, resp)
    \/ JoinFeeds("manual")
    \/ \E resp \in QueryScrapeResponses : ScrapeResponse("manual", resp)
    \/ ScrapePauseEnd("manual")
    \/ Commit("manual")
    \/ Quiet /\ \E id \in ToggleIds : ToggleFavorite(id)
    \/ Quiet /\ \E filters \in ShownFilters : GetFilteredArticles(filters)
    \/ Quiet /\ GetKeywordStats
    \/ Quiet /\ GetKeywordNetwork
    \/ Quiet /\ IsCacheValid

SpecQuery == InitQuery /\ [][NextQuery]_vars

\* a caller marks articles and reads the marked ones at any moment, also while a
\* collection is in flight, and collects again afterwards
NextFavorite ==
    \/ Construct
    \/ \E c \in BOOLEAN : ManualCollect(1, c)
    \/ \E f \in 1..NumFeeds, resp \in QueryFeedResponses : FeedSettle("manual", f, resp)
    \/ JoinFeeds("manual")
    \/ \E resp \in QueryScrapeResponses : ScrapeResponse("manual", resp)
    \/ ScrapePauseEnd("manual")
    \/ Commit("manual")
    \/ \E id \in ToggleIds : ToggleFavorite(id)
    \/ GetFilteredArticles([NoFilters EXCEPT !.favoritesOnly = TRUE])

SpecFavorite == InitQuery /\ [][NextFavorite]_vars

\* extractKeywords on short texts over a small vocabulary and on three longer ones
MaxTextLen == 3     \* words of an enumerated text
Vocabulary == {"AI", "bandoche", "GPU", "The", "Chair", "lorem", "5G", "Cloud"}
ExampleText == Spaced(<<"AI", "bandoche", "AI">>)
ManyText == TagsTwelve \o <<" ", "lorem", " ">> \o TagsSeven
Texts ==
    {Spaced(ws) : ws \in UNION {[1..n -> Vocabulary] : n \in 0..MaxTextLen}}
    \cup {ExampleText, ManyText, TagsTwelve \o <<" ">> \o TagsSeven}

InitExtract ==
    /\ started = FALSE
    /\ now = T0
    /\ articles = <<>>
    /\ nextId = 1
    /\ timer = <<>>
    /\ runs = [r \in Callers |-> IdleRun]
    /\ lastDone = "none"
    /\ lsArticles = Absent.a /\ lsLastUpdate = Absent.t
    /\ \E text \in Texts : view = [NoView EXCEPT !.text = text]

NextExtract == ExtractKeywords

SpecExtract == InitExtract /\ [][NextExtract]_vars

\* one caller, and only the steps the code itself brings about are fair: a pending
\* RSS2JSON request is aborted by its 10 s timer, Promise.allSettled resolves, the
\* one-second pause ends, the run commits.  Nothing bounds the AllOrigins request.
NextLive ==
    \/ Construct
    \/ \E m \in {1, DEFAULT_MAX_FEEDS}, c \in BOOLEAN : ManualCollect(m, c)
    \/ \E f \in 1..NumFeeds, resp \in FewFeedResponses : FeedSettle("manual", f, resp)
    \/ JoinFeeds("manual")
    \/ \E resp \in FewScrapeResponses : ScrapeResponse("manual", resp)
    \/ ScrapePauseEnd("manual")
    \/ Commit("manual")

FairLive ==
    /\ \A f \in 1..NumFeeds : WF_vars(FeedSettle("manual", f, [kind |-> "abort"]))
    /\ WF_vars(JoinFeeds("manual"))
    /\ WF_vars(ScrapePauseEnd("manual"))
    /\ WF_vars(Commit("manual"))

SpecLive == InitCollect /\ [][NextLive]_vars /\ FairLive

\* parseRSSFromXML on every feed text of up to MaxXmlLen elements and on two long ones
MaxXmlLen == 3      \* elements of an enumerated feed text
XmlItems ==
    {XmlItem(title, link, guid) :
        title \in {<<>>, <<" ">>, <<"t1", "&amp;", "t2">>},
        link \in {<<>>, <<" ", "http", "a1">>},
        guid \in {<<>>, Http("g1"), <<"tag", "g2">>}}
LongXml == [i \in 1..17 |-> XmlItem(<<"t1">>, IF i \in {1, 3} THEN <<>> ELSE Http("a1"), <<>>)]
XmlTexts ==
    UNION {[1..n -> XmlItems] : n \in 0..MaxXmlLen}
    \cup {LongXml, Tail(LongXml)}

InitParse ==
    /\ started = FALSE
    /\ now = T0
    /\ articles = <<>>
    /\ nextId = 1
    /\ timer = <<>>
    /\ runs = [r \in Callers |-> IdleRun]
    /\ lastDone = "none"
    /\ lsArticles = Absent.a /\ lsLastUpdate = Absent.t
    /\ \E xml \in XmlTexts : view = [NoView EXCEPT !.items = xml]

NextParse == ParseRSSFromXML

SpecParse == InitParse /\ [][NextParse]_vars

(***************************************************************************)
(* Properties.                                                             *)
(***************************************************************************)
Done(r) == runs[r].pc = "done"
CommitStep(r) == runs[r].pc = "scraped" /\ runs'[r].pc = "done"
StripFav(as) == [i \in 1..Len(as) |-> [as[i] EXCEPT !.is_favorite = FALSE]]
IdSet(as) == {as[i].id : i \in 1..Len(as)}
NoRepeat(s) == Cardinality(Range(s)) = Len(s)

\* everything the sources of invocation r produced, in merge order
Produced(r) ==
    Flatten([f \in 1..Len(runs[r].results) |-> runs[r].results[f].value])
    \o runs[r].scrapedArticles

\* the stored timestamp is the decimal form of an instant less than CACHE_DURATION ago
StoredFresh ==
    \E t \in (now - CACHE_DURATION + 1)..now : lsLastUpdate = <<NumToString(t)>>

NoDuplicateLinks(as) ==
    \A i, j \in 1..Len(as) : (i < j /\ as[i].link = as[j].link) => IsSynthetic(as[i].link)

\* C1: in the cache and in the list every completed collectNews returned, no two
\* articles have the same link unless the link is synthetic ('#...').
C1_NoDuplicateLinks ==
    /\ NoDuplicateLinks(articles)
    /\ \A r \in Callers : Done(r) => NoDuplicateLinks(runs[r].ret)

\* a completed invocation whose sources produced the same non-synthetic link twice
C1_Witness ==
    \E r \in Callers :
        /\ Done(r)
        /\ \E i, j \in 1..Len(Produced(r)) :
              /\ i < j
              /\ Produced(r)[i].link = Produced(r)[j].link
              /\ ~IsSynthetic(Produced(r)[i].link)
              /\ Produced(r)[i].link # <<>>
              /\ Produced(r)[j].source # Produced(r)[i].source

\* C2: the step that completes a collectNews leaves in the cache exactly the list
\* that invocation returns, and no article of the previous cache content is in it.
C2_CollectReplaces ==
    [][\A r \in Callers :
          CommitStep(r) =>
              /\ articles' = runs'[r].ret
              /\ IdSet(articles') \cap IdSet(articles) = {}]_vars

\* both callers have completed a collectNews: the later one replaced the list of the earlier
C2_Witness ==
    /\ \A r \in Callers : Done(r)
    /\ articles = runs[lastDone].ret
    /\ \E o \in Callers : o # lastDone /\ runs[o].ret # <<>>
    /\ \E i \in 1..Len(articles) : articles[i].source = FEEDS[1]

\* C3: the article list of the cache changes only in the step that completes a
\* collectNews, and then to the complete list that invocation returns; every other
\* step of an invocation leaves the list a reader sees as it was.
C3_AtomicSwap ==
    [][(started /\ StripFav(articles') # StripFav(articles)) =>
          \E r \in Callers : CommitStep(r) /\ articles' = runs'[r].ret]_vars

\* an invocation is suspended with a partly built result while the cache holds a list
C3_Witness ==
    \E r \in Callers :
        /\ runs[r].pc = "scrapePause"
        /\ runs[r].uniqueArticles # <<>>
        /\ runs[r].scrapedArticles # <<>>
        /\ articles # <<>>
        /\ IdSet(articles) \cap IdSet(Produced(r)) = {}

\* C4: a completed collectNews returned every article of every source that
\* answered, except articles that repeat the link or the title of an article
\* earlier in merge order; sources that failed take nothing away.
C4_FailuresIsolated ==
    \A r \in Callers :
        Done(r) =>
            LET rss == Flatten([f \in 1..Len(runs[r].results) |-> runs[r].results[f].value])
            IN \A k \in 1..Len(rss) :
                  \/ \E i \in 1..Len(runs[r].ret) : runs[r].ret[i] = rss[k]
                  \/ \E j \in 1..(k - 1) : rss[j].link = rss[k].link \/ rss[j].title = rss[k].title

\* a completed invocation in which the first source failed and the second answered
C4_Witness ==
    \E r \in Callers :
        /\ Done(r)
        /\ Len(runs[r].results) >= 2
        /\ runs[r].results[1].value = <<>>
        /\ runs[r].results[2].value # <<>>
        /\ \E i \in 1..Len(runs[r].ret) : runs[r].ret[i] = runs[r].results[2].value[1]

IsSampleLink(link) == \E i \in 1..5 : link = <<"#", SampleLinks[i]>>

\* C5: the list a collectNews returns is its collected articles followed, when
\* they are fewer than 10, by the five sample articles #sample-1 .. #sample-5 in
\* order with the ids nextId .. nextId + 4; with 10 or more it has no sample.
C5_SamplePadding ==
    [][\A r \in Callers :
          CommitStep(r) =>
              LET ret == runs'[r].ret
                  Collected(a) == ~IsSampleLink(a.link)
                  real == SelectSeq(ret, Collected)
              IN IF Len(real) < 10
                 THEN /\ Len(ret) = Len(real) + 5
                      /\ SubSeq(ret, 1, Len(real)) = real
                      /\ \A i \in 1..5 :
                            /\ ret[Len(real) + i].link = <<"#", SampleLinks[i]>>
                            /\ ret[Len(real) + i].id = nextId + i - 1
                      /\ nextId' = nextId + 5
                 ELSE ret = real /\ nextId' = nextId]_vars

\* a returned list of collected articles padded with the samples
C5_Witness ==
    \E r \in Callers :
        /\ Done(r)
        /\ Len(runs[r].ret) > 5
        /\ ~IsSampleLink(runs[r].ret[1].link)
        /\ runs[r].ret[Len(runs[r].ret)].link = <<"#", SampleLinks[5]>>

\* C6: isCacheValid() is true exactly when a timestamp is stored and it is less
\* than 30 minutes old: true at 29 minutes, false at 30, at 31 and without one.
C6_CacheValidity ==
    /\ isCacheValid <=> StoredFresh
    /\ lsLastUpdate = <<NumToString(now - 29)>> => isCacheValid
    /\ lsLastUpdate = <<NumToString(now - 30)>> => ~isCacheValid
    /\ lsLastUpdate = <<NumToString(now - 31)>> => ~isCacheValid
    /\ lsLastUpdate = <<>> => ~isCacheValid

\* a collectNews committed exactly 30 minutes ago
C6_Witness ==
    /\ lastDone # "none"
    /\ runs[lastDone].doneAt = now - 30
    /\ lsLastUpdate = <<NumToString(now - 30)>>

\* C7: a timer tick that finds the cache valid changes nothing; one that finds it
\* stale starts collectNews(8) and changes nothing else.
C7_TickOnlyWhenStale ==
    [][(started /\ timer' # timer) =>
          IF StoredFresh
          THEN UNCHANGED <<started, now, articles, nextId, lsArticles, lsLastUpdate, runs, lastDone>>
          ELSE /\ ~InFlight("auto")
               /\ runs'["auto"].pc = "feeds"
               /\ runs'["auto"].maxFeeds = 8
               /\ runs'["manual"].pc = runs["manual"].pc
               /\ UNCHANGED <<started, now, articles, nextId, lsArticles, lsLastUpdate, lastDone>>]_vars

\* the first tick has passed, no background collection was started, the cache is valid
C7_Witness ==
    /\ timer = <<T0 + 2 * CACHE_DURATION>>
    /\ runs["auto"].pc = "idle"
    /\ lastDone = "manual"
    /\ StoredFresh

\* C8: when the invocations of both callers overlapped and both have completed,
\* the cache and the stored list are the list of the one that completed last and
\* the stored timestamp is its completion time.
C8_LastWriteWins ==
    ((\A r \in Callers : Done(r) /\ runs[r].overlapped)) =>
        /\ StripFav(articles) = StripFav(runs[lastDone].ret)
        /\ lsArticles = <<Stringify(runs[lastDone].ret)>>
        /\ lsLastUpdate = <<NumToString(runs[lastDone].doneAt)>>
        /\ \A r \in Callers : runs[r].doneAt <= runs[lastDone].doneAt

\* both overlapping invocations have completed, the one started first completed last
C8_Witness ==
    /\ \A r \in Callers : Done(r) /\ runs[r].overlapped
    /\ lastDone = "manual"
    /\ runs["manual"].ret # runs["auto"].ret
    /\ runs["manual"].ret[1].id < runs["auto"].ret[1].id

\* C9: the constructor adopts the stored list when its timestamp is less than 30
\* minutes old (and the list parses); otherwise the service starts with no articles.
C9_StartupAdoption ==
    [][(~started /\ started') =>
          IF StoredFresh /\ lsArticles # <<>> /\ lsArticles[1].wellFormed
          THEN Stringify(articles') = lsArticles[1]
          ELSE articles' = <<>>]_vars

\* the service has started on a stored list that is exactly 30 minutes old
C9_Witness ==
    /\ started
    /\ now = T0
    /\ lsArticles # <<>> /\ lsArticles[1].wellFormed /\ lsArticles[1].rows # <<>>
    /\ lsLastUpdate = <<NumToString(T0 - CACHE_DURATION)>>
    /\ articles = <<>>

\* the ids held by invocation r: those it assigned to the articles of its sources,
\* and those of the list it returned
AssignedIds(r) == Ids(Produced(r))
HeldIds(r) == Range(AssignedIds(r)) \cup IdSet(runs[r].ret)

IdsWellFormed ==
    /\ NoRepeat(Ids(articles))
    /\ \A id \in IdSet(articles) : id < nextId
    /\ \A r \in Callers :
          LET assigned == AssignedIds(r)
          IN /\ NoRepeat(assigned)
             /\ NoRepeat(Ids(runs[r].ret))
             /\ \A id \in Range(assigned) \cup IdSet(runs[r].ret) : id < nextId
             /\ InFlight(r) => Range(assigned) \cap IdSet(articles) = {}
    /\ HeldIds("manual") \cap HeldIds("auto") = {}

\* C10: nextId never decreases; every id in use is below nextId; the ids an
\* invocation assigns are distinct from each other, from those of the other
\* invocation and from those in the cache; the ids in the cache are distinct.
C10_UniqueIds == []IdsWellFormed /\ [][nextId' >= nextId]_vars

\* two overlapping invocations that collected, scraped and padded have completed,
\* one of them with ids above those of the list the service started on
C10_Witness ==
    /\ \A r \in Callers : Done(r) /\ runs[r].overlapped /\ Len(runs[r].ret) > 5
    /\ \E r \in Callers : runs[r].scrapedArticles # <<>>
    /\ \E r \in Callers : \A i \in 1..Len(runs[r].ret) : runs[r].ret[i].id > 5

\* article `a` satisfies every criterion that `c` supplies
Satisfies(a, c) ==
    /\ c.search # <<>> =>
          \/ Includes(a.title, Lower(c.search[1]))
          \/ Includes(a.summary, Lower(c.search[1]))
          \/ Includes(a.keywords, Lower(c.search[1]))
    /\ (c.source # <<>> /\ c.source # <<"all">>) => a.source = c.source[1]
    /\ c.dateFrom # <<>> => a.published >= c.dateFrom[1]
    /\ c.dateTo # <<>> => a.published <= c.dateTo[1]
    /\ c.favoritesOnly => a.is_favorite

\* the view is what the read it records returns on the present cache
ViewIsCurrent ==
    CASE view.op = "getFilteredArticles" ->
             view.list = getFilteredArticles(articles, view.filters)
      [] view.op = "getKeywordStats" -> view.stats = getKeywordStats(articles)
      [] view.op = "getKeywordNetwork" ->
             /\ view.nodes = getKeywordNetwork(articles).nodes
             /\ view.edges = getKeywordNetwork(articles).edges
      [] OTHER -> FALSE

\* C11: for every criteria, getFilteredArticles returns each cached article that
\* satisfies all supplied criteria exactly once and nothing else; with only
\* favoritesOnly set it returns favourites only, all of them in the unfiltered result.
C11_FilterExact ==
    /\ \A c \in Criteria :
          LET res == getFilteredArticles(articles, c)
          IN /\ \A i \in 1..Len(res) : res[i] \in Range(articles) /\ Satisfies(res[i], c)
             /\ \A k \in 1..Len(articles) :
                   Satisfies(articles[k], c) =>
                       Cardinality({i \in 1..Len(res) : res[i] = articles[k]}) = 1
    /\ LET favs == getFilteredArticles(articles, [NoFilters EXCEPT !.favoritesOnly = TRUE])
       IN /\ \A i \in 1..Len(favs) : favs[i].is_favorite
          /\ Range(favs) \subseteq Range(getFilteredArticles(articles, NoFilters))

\* a read with a search text, a source and favoritesOnly returned some of the
\* favourites of a cache that holds collected and sample articles
C11_Witness ==
    /\ view.op = "getFilteredArticles" /\ ViewIsCurrent
    /\ view.filters.favoritesOnly /\ view.filters.search # <<>>
    /\ view.list # <<>>
    /\ \E i \in 1..Len(articles) :
          articles[i].is_favorite /\ articles[i] \notin Range(view.list)

\* C12: for every criteria, the list getFilteredArticles returns is in descending
\* order of published, whatever the order of the cache.
C12_FilterSorted ==
    \A c \in Criteria :
        LET res == getFilteredArticles(articles, c)
        IN \A i, j \in 1..Len(res) : i < j => res[i].published >= res[j].published

\* a read returned three or more articles of a cache that is not in descending order
C12_Witness ==
    /\ view.op = "getFilteredArticles" /\ ViewIsCurrent
    /\ Len(view.list) >= 3
    /\ \E i \in 1..(Len(articles) - 1) :
          /\ articles[i].published < articles[i + 1].published
          /\ articles[i] \in Range(view.list)
          /\ articles[i + 1] \in Range(view.list)

\* C13: toggling a favourite twice in succession restores the cache: after a
\* toggleFavorite(id) step a second toggleFavorite(id) gives back the list from
\* before the step, and so do two calls on any cache for any id, present or not.
C13_ToggleInvolution ==
    /\ [](\A id \in 0..nextId : toggleFavorite(toggleFavorite(articles, id), id) = articles)
    /\ [][\A id \in ToggleIds :
             ToggleFavorite(id) => toggleFavorite(articles', id) = articles]_vars

\* a collected article is marked favourite in a cache that also holds samples
C13_Witness ==
    /\ Len(articles) > 5
    /\ \E i \in 1..Len(articles) :
          articles[i].is_favorite /\ articles[i].id \in ToggleIds /\ ~IsSampleLink(articles[i].link)

\* C14: a toggleFavorite(id) step flips is_favorite of the article with that id
\* and leaves every other article, every other field, the order of the list, the id
\* counter and the rest of the state as they were; for an id that no cached article
\* has, the call leaves the list as it is.
C14_ToggleFrame ==
    /\ [](\A id \in (0..nextId) \ IdSet(articles) : toggleFavorite(articles, id) = articles)
    /\ [][\A id \in ToggleIds :
             ToggleFavorite(id) =>
                 /\ Len(articles') = Len(articles)
                 /\ \A i \in 1..Len(articles) :
                       articles'[i] =
                           IF articles[i].id = id
                           THEN [articles[i] EXCEPT !.is_favorite = ~articles[i].is_favorite]
                           ELSE articles[i]
                 /\ UNCHANGED <<started, now, nextId, lsArticles, lsLastUpdate, timer,
                                runs, lastDone, view>>]_vars

\* the article with id 7 is a favourite, the others are not, and id 1 is not in the cache
C14_Witness ==
    /\ Len(articles) > 5
    /\ 1 \notin IdSet(articles)
    /\ \A i \in 1..Len(articles) : articles[i].is_favorite <=> articles[i].id = 7
    /\ \E i \in 2..Len(articles) : articles[i].id = 7

\* the keywords that occur in the keyword list of some cached article
CachedKeywords == UNION {Range(articles[i].keywords) : i \in 1..Len(articles)}

\* the number of cached articles whose keyword list contains k
ArticlesWith(k) == Cardinality({i \in 1..Len(articles) : k \in Range(articles[i].keywords)})

\* C15: getKeywordStats returns at most 30 entries (30, or one per keyword of the
\* cache when there are fewer), no keyword twice; the count of an entry is the number
\* of cached articles whose keyword list contains the keyword; counts do not increase
\* along the list, and no keyword left out has a larger count than a returned one.
C15_KeywordStats ==
    LET stats == getKeywordStats(articles)
        returned == {stats[i].keyword : i \in 1..Len(stats)}
    IN /\ Len(stats) <= 30
       /\ Len(stats) = Min(Cardinality(CachedKeywords), 30)
       /\ returned \subseteq CachedKeywords
       /\ \A i, j \in 1..Len(stats) : i < j =>
             /\ stats[i].keyword # stats[j].keyword
             /\ stats[i].count >= stats[j].count
       /\ \A i \in 1..Len(stats) : stats[i].count = ArticlesWith(stats[i].keyword)
       /\ \A k \in CachedKeywords \ returned :
             \A i \in 1..Len(stats) : ArticlesWith(k) <= stats[i].count

\* a read returned 30 entries with falling counts from a cache of more than 30
\* keywords, the first of which was counted once only
C15_Witness ==
    /\ view.op = "getKeywordStats" /\ ViewIsCurrent
    /\ Len(view.stats) = 30
    /\ Cardinality(CachedKeywords) > 30
    /\ view.stats[1].count > view.stats[30].count
    /\ ArticlesWith(articles[1].keywords[1]) < view.stats[1].count

\* C16: getKeywordNetwork returns at most 15 nodes and at most 20 edges, and the
\* from and the to of every edge are ids of returned nodes.
C16_NetworkBounds ==
    LET net == getKeywordNetwork(articles)
        ids == {net.nodes[i].id : i \in 1..Len(net.nodes)}
    IN /\ Len(net.nodes) <= 15
       /\ Len(net.edges) <= 20
       /\ \A e \in 1..Len(net.edges) : net.edges[e].from \in ids /\ net.edges[e].to \in ids

\* a read returned 15 nodes and 20 edges from a cache of more than 15 keywords
C16_Witness ==
    /\ view.op = "getKeywordNetwork" /\ ViewIsCurrent
    /\ Len(view.nodes) = 15 /\ Len(view.edges) = 20
    /\ Cardinality(CachedKeywords) > 15

\* the number of cached articles whose keyword list contains both a and b
CoOccurrence(a, b) ==
    Cardinality({i \in 1..Len(articles) : {a, b} \subseteq Range(articles[i].keywords)})

\* the unordered pairs of the first 15 keywords of the statistics that occur together
\* in more than one cached article
TopPairs ==
    LET stats == getKeywordStats(articles)
        top == {stats[i].keyword : i \in 1..Min(Len(stats), 15)}
    IN {{a, b} : a, b \in top} \ {{a} : a \in top}

FrequentTopPairs ==
    {p \in TopPairs : \E a, b \in p : a # b /\ CoOccurrence(a, b) > 1}

\* C17: the edges of getKeywordNetwork are pairs of top-15 keywords that occur
\* together in more than one article, no pair twice, each with its co-occurrence
\* count as value; there are 20 of them, or all such pairs when these are fewer than
\* 20; node i is the i-th keyword of the statistics with twice its count as value.
C17_NetworkEdges ==
    LET net == getKeywordNetwork(articles)
        stats == getKeywordStats(articles)
    IN /\ \A e \in 1..Len(net.edges) :
             /\ {net.edges[e].from, net.edges[e].to} \in FrequentTopPairs
             /\ net.edges[e].value = CoOccurrence(net.edges[e].from, net.edges[e].to)
       /\ \A e, f \in 1..Len(net.edges) :
             e # f => {net.edges[e].from, net.edges[e].to} # {net.edges[f].from, net.edges[f].to}
       /\ Len(net.edges) = Min(Cardinality(FrequentTopPairs), 20)
       /\ Len(net.nodes) = Min(Len(stats), 15)
       /\ \A i \in 1..Len(net.nodes) :
             /\ net.nodes[i].id = stats[i].keyword
             /\ net.nodes[i].value = 2 * ArticlesWith(net.nodes[i].id)

\* C18: extractKeywords(text) returns at most 12 keywords, none of them twice, in
\* an order in which the relevance score never increases; for the empty text it
\* returns the empty list, and for "AI bandoche AI" the list holds "AI" exactly once.
C18_ExtractKeywords ==
    view.op = "extractKeywords" =>
        /\ Len(view.keywords) <= 12
        /\ \A i, j \in 1..Len(view.keywords) : i < j =>
              /\ view.keywords[i] # view.keywords[j]
              /\ calculateKeywordRelevance(view.keywords[i], view.text)
                    >= calculateKeywordRelevance(view.keywords[j], view.text)
        /\ view.text = <<>> => view.keywords = <<>>
        /\ view.text = ExampleText =>
              Cardinality({i \in 1..Len(view.keywords) : view.keywords[i] = "AI"}) = 1

\* a text with more than 12 candidates gave 12 keywords, the first of which is not
\* the candidate that was pushed first
C18_Witness ==
    /\ view.op = "extractKeywords"
    /\ Len(candidateKeywords(view.text)) > 12
    /\ Len(view.keywords) = 12
    /\ view.keywords[1] # candidateKeywords(view.text)[1]

\* what the claim compares of an article: its link, title and source
Triples(as) == [i \in 1..Len(as) |-> <<as[i].link, as[i].title, as[i].source>>]

\* the lists the feeds of run r produced, one after the other in registry order
InRegistryOrder(r) == Flatten([f \in 1..Len(runs[r].results) |-> runs[r].results[f].value])

\* what a feed answers gives the same triples whatever the id counter and the clock
\* are when the answer arrives
AnswerFixesTriples ==
    \A resp \in FeedResponses, f \in 1..NumFeeds :
        Triples(processedArticles(feedItems(resp), FEEDS[f], MaxStartId + 1, MaxTime))
            = Triples(processedArticles(feedItems(resp), FEEDS[f], 1, T0))

\* C19: the (link, title, source) sequence a collection returns is fixed by what
\* each source answered, not by the order in which the requests settled: a feed's
\* answer gives the same triples whenever it arrives, the returned list is the
\* deduplication of the feeds' lists taken in registry order followed by the scraped
\* articles (and the samples), and of the feed articles with one link only one from
\* the feed earliest in the registry is returned.
C19_FirstSeenWins ==
    /\ AnswerFixesTriples
    /\ Done("manual") =>
          LET run == runs["manual"]
              expected == finalUniqueArticles(uniqueByLink(InRegistryOrder("manual")),
                                              run.scrapedArticles)
          IN /\ Len(run.ret) >= Len(expected)
             /\ SubSeq(Triples(run.ret), 1, Len(expected)) = Triples(expected)
             /\ \A k \in (Len(expected) + 1)..Len(run.ret) : IsSampleLink(run.ret[k].link)
             /\ \A f \in 1..Len(run.results) :
                   \A i \in 1..Len(run.results[f].value), k \in 1..Len(run.ret) :
                       (run.ret[k].link = run.results[f].value[i].link
                           /\ run.ret[k].source \in Range(FEEDS))
                       => \E g \in 1..f : run.ret[k].source = FEEDS[g]

\* a collection has returned whose second feed settled before the first, both with
\* an article of the same link: the one returned is the first feed's, drawn later
C19_Witness ==
    /\ Done("manual") /\ Len(runs["manual"].results) = 2
    /\ LET res == runs["manual"].results
       IN /\ res[1].value # <<>> /\ res[2].value # <<>>
          /\ res[2].value[1].id < res[1].value[1].id
          /\ res[1].value[1].link = res[2].value[1].link
          /\ res[1].value[1] \in Range(runs["manual"].ret)
          /\ res[2].value[1] \notin Range(runs["manual"].ret)

\* C20: every request of a collection that is awaiting its answer carries a
\* timeout that cancels it, and every collection that has started returns, whether
\* or not the requests are answered.
C20_CollectCompletes ==
    /\ [](\A r \in Callers : outstanding(r) \subseteq cancellable(r))
    /\ (runs["manual"].pc = "feeds") ~> Done("manual")

\* the articles the feeds of invocation r produced, in merge order
FeedArticles(r) == Flatten([f \in 1..Len(runs[r].results) |-> runs[r].results[f].value])

\* C21: articles whose source gave no link are not deduplicated against each
\* other: every article without a link that the feeds of a completed collection
\* produced is in the returned list, unless an article earlier in merge order has
\* the same title.
C21_LinklessSurvive ==
    \A r \in Callers :
        Done(r) =>
            LET rss == FeedArticles(r)
            IN \A k \in 1..Len(rss) :
                  rss[k].link = <<>> =>
                      \/ rss[k] \in Range(runs[r].ret)
                      \/ \E j \in 1..(k - 1) : rss[j].title = rss[k].title

\* C22: whenever the service has been constructed, no collection is in flight and
\* an article list is stored, the stored list is the JSON form of the cache,
\* favourite marks included, and once a collection has committed the stored
\* timestamp is the time of the last commit.
C22_StoreMirrorsCache ==
    (started /\ Quiet /\ lsArticles # <<>>) =>
        /\ lsArticles = <<Stringify(articles)>>
        /\ lastDone # "none" => lsLastUpdate = <<NumToString(runs[lastDone].doneAt)>>

\* C23: when the service is constructed on a stored article list that cannot be
\* parsed, the construction completes with an empty cache and the cache is not
\* reported valid.
C23_CorruptStoreIsMiss ==
    [][(Construct /\ lsArticles # <<>> /\ ~lsArticles[1].wellFormed)
           => (articles' = <<>> /\ nextId' = 1 /\ ~isCacheValid')]_vars

\* C24: in the scraping pass of an invocation the next page request is never sent
\* in the step in which the previous one settles, whether that one gave a page or
\* failed: a pause lies between any two consecutive page requests.
C24_PauseBetweenRequests ==
    [][\A r \in Callers :
          (runs[r].pc = "scrapeFetch" /\ runs'[r].pc = "scrapeFetch")
              => (runs'[r].src = runs[r].src /\ runs'[r].page = runs[r].page)]_vars

\* C25: the scraping pass only adds: the RSS articles that the final
\* deduplication keeps when nothing is scraped are, in the same order, the first
\* articles of the list a completed collection returns, whatever was scraped.
C25_ScrapingAdditive ==
    \A r \in Callers :
        Done(r) =>
            LET alone == uniqueByLinkOrTitle(runs[r].uniqueArticles)
            IN /\ Len(runs[r].ret) >= Len(alone)
               /\ SubSeq(runs[r].ret, 1, Len(alone)) = alone

\* a completed collection scraped an article with the link of an RSS article; the
\* RSS article was returned and the scraped one was not
C25_Witness ==
    \E r \in Callers :
        /\ Done(r)
        /\ \E i \in 1..Len(runs[r].uniqueArticles), j \in 1..Len(runs[r].scrapedArticles) :
              /\ runs[r].uniqueArticles[i].link = runs[r].scrapedArticles[j].link
              /\ runs[r].uniqueArticles[i] \in Range(runs[r].ret)
              /\ runs[r].scrapedArticles[j] \notin Range(runs[r].ret)
        /\ \E j \in 1..Len(runs[r].scrapedArticles) : runs[r].scrapedArticles[j] \in Range(runs[r].ret)

\* element i of the parsed feed text has a title that is not blank; has a link or
\* a guid that starts with http
XmlTitled(i) == Trim(view.items[i].title) # <<>>
XmlLinked(i) == xmlLink(view.items[i]) # <<>>

\* C26 as claimed: parseRSSFromXML returns at most 15 records, each with a
\* non-empty title, and a record with a synthetic link can only be the record of the
\* very first element of the feed text, which then has no link: it is the first
\* record and its link is '#<source>-0'.
C26_LinkWaivedForFirstItem ==
    view.op = "parseRSSFromXML" =>
        /\ Len(view.list) <= 15
        /\ \A k \in 1..Len(view.list) :
              /\ view.list[k].title # <<>>
              /\ IsSynthetic(view.list[k].link) =>
                    /\ k = 1
                    /\ XmlTitled(1) /\ ~XmlLinked(1)
                    /\ view.list[1] = xmlRecord(view.items[1], FEEDS[1], now, 0)

\* C26, amended: the records are those of the first 15 accepted elements, in
\* order; an element is accepted iff its title is not blank and it has a link or no
\* element before it has a title (it is the first record, not necessarily the first
\* element); a record without link gets '#<source>-0' and can only be the first.
C26_LinkWaivedForFirstRecord ==
    view.op = "parseRSSFromXML" =>
        LET Accepted(i) == XmlTitled(i) /\ (XmlLinked(i) \/ \A j \in 1..(i - 1) : ~XmlTitled(j))
            acc == SelectSeq([i \in 1..Len(view.items) |-> i], Accepted)
        IN /\ Len(view.list) = Min(Len(acc), 15)
           /\ \A k \in 1..Len(view.list) :
                 /\ view.list[k].title # <<>>
                 /\ view.list[k].title = decodeHtmlEntities(Trim(view.items[acc[k]].title))
                 /\ view.list[k].link =
                        IF XmlLinked(acc[k]) THEN xmlLink(view.items[acc[k]])
                        ELSE <<"#", FEEDS[1], "-", "0">>
                 /\ IsSynthetic(view.list[k].link) => k = 1

\* a feed text whose first element has no title and whose second has a title and
\* no link gave a first record with a synthetic link, and a further record
C26_Witness ==
    /\ view.op = "parseRSSFromXML"
    /\ Len(view.items) >= 3 /\ Len(view.list) >= 2
    /\ ~XmlTitled(1) /\ XmlTitled(2) /\ ~XmlLinked(2)
    /\ IsSynthetic(view.list[1].link)

\* the operations that only read
ReadOps == {"getFilteredArticles", "getKeywordStats", "getKeywordNetwork", "isCacheValid"}

\* C27: a step in which getFilteredArticles, getKeywordStats, getKeywordNetwork or
\* isCacheValid returns leaves the cache (its contents, their order and every field
\* of every article), the id counter and the stored list and timestamp as they were.
C27_ReadsArePure ==
    [][(view' # view /\ view'.op \in ReadOps)
           => UNCHANGED <<articles, nextId, lsArticles, lsLastUpdate>>]_vars

\* a filtered list was read from a cache that is not in the order of publication
\* and holds a marked article, and the list differs from the cache
C27_Witness ==
    /\ view.op = "getFilteredArticles"
    /\ articles # <<>> /\ sortByPublished(articles) # articles
    /\ \E i \in 1..Len(articles) : articles[i].is_favorite
    /\ view.list # <<>> /\ view.list # articles

\* C28: when collectNews has returned, every article the final pass took out of
\* the RSS and scraped articles has the link or the title of an article that the
\* pass kept.
C28_DroppedForRetained ==
    \A r \in Callers : Done(r) =>
        LET pool == runs[r].uniqueArticles \o runs[r].scrapedArticles
        IN \A i \in 1..Len(pool) :
              \/ pool[i] \in Range(runs[r].ret)
              \/ \E k \in 1..Len(runs[r].ret) :
                    \/ runs[r].ret[k].link = pool[i].link
                    \/ runs[r].ret[k].title = pool[i].title

\* C29: the step in which a collectNews invocation swaps the cache and returns
\* leaves no cached article marked as favourite, whatever was marked before it or
\* while it was in flight.
C29_RefreshClearsFavorites ==
    [][\A r \in Callers : CommitStep(r) =>
          \A i \in 1..Len(articles') : ~articles'[i].is_favorite]_vars

\* a marked article was read; a collection has returned since: the cache is the
\* list it returned, without the article that was read, and nothing is marked;
\* the article with the link of the one that was marked is among them
C29_Witness ==
    /\ view.op = "getFilteredArticles" /\ view.filters.favoritesOnly /\ view.list # <<>>
    /\ view.list[1].is_favorite
    /\ lastDone # "none" /\ Done(lastDone) /\ articles = runs[lastDone].ret
    /\ view.list[1].id \notin IdSet(articles)
    /\ \E i \in 1..Len(articles) : articles[i].link = view.list[1].link
    /\ \A i \in 1..Len(articles) : ~articles[i].is_favorite

\* the setInterval callback runs in this step
TickStep == timer # <<>> /\ timer' # timer

\* the stored timestamp is a number, and the cache has been stale since this
\* instant with the scheduler running (the service is constructed at T0)
StaleSince ==
    LET staleAt == parseInt(lsLastUpdate[1]) + CACHE_DURATION
    IN IF staleAt < T0 THEN T0 ELSE staleAt

====
